---------------------------- MODULE Spec2Model ----------------------------
(***************************************************************************)
(* Model of the streaming chat client.                                     *)
(*                                                                         *)
(*   ChatService.streamResponse      (components/EnhancedChatBox.tsx)      *)
(*   ChatService.sendMessageStream   (services/chatService.ts)             *)
(*                                                                         *)
(* Text is a sequence of one-character strings, so that split, trim,       *)
(* startsWith, slice and includes act on characters as they do in the      *)
(* source.  JSON.parse is a recursive-descent parser over those            *)
(* characters for the JSON the wire can carry here: objects, arrays,       *)
(* strings without escapes, integers, true, false and null.                *)
(***************************************************************************)
EXTENDS Integers, Sequences, FiniteSets, TLC

(***************************************************************************)
(* Character data                                                          *)
(***************************************************************************)

NL == "\n"

WhiteSpace == {" ", "\t", "\r", "\n"}

Digits == {"0", "1", "2", "3", "4", "5", "6", "7", "8", "9"}

DigitVal(c) ==
  CASE c = "0" -> 0 [] c = "1" -> 1 [] c = "2" -> 2 [] c = "3" -> 3
    [] c = "4" -> 4 [] c = "5" -> 5 [] c = "6" -> 6 [] c = "7" -> 7
    [] c = "8" -> 8 [] OTHER -> 9

DataPrefix == <<"d", "a", "t", "a", ":", " ">>

PrefixLen == 6

DoneBracket == <<"[", "D", "O", "N", "E", "]">>

DoneWord == <<"D", "O", "N", "E">>

EndWord == <<"E", "N", "D">>

DoneKeyQuoted == <<"\"", "d", "o", "n", "e", "\"">>

KeyDone == <<"d", "o", "n", "e">>

KeyContent == <<"c", "o", "n", "t", "e", "n", "t">>

KeyMessage == <<"m", "e", "s", "s", "a", "g", "e">>

KeyText == <<"t", "e", "x", "t">>

KeyDelta == <<"d", "e", "l", "t", "a">>

LitTrue == <<"t", "r", "u", "e">>

LitFalse == <<"f", "a", "l", "s", "e">>

LitNull == <<"n", "u", "l", "l">>

(***************************************************************************)
(* String operations of the JavaScript runtime                             *)
(***************************************************************************)

\* s.slice(n): the characters of s from index n (0-based) on.
Slice(s, n) == IF n >= Len(s) THEN <<>> ELSE SubSeq(s, n + 1, Len(s))

\* Does p occur in s at (1-based) position i?
MatchAt(s, i, p) ==
  /\ i >= 1
  /\ i + Len(p) - 1 <= Len(s)
  /\ \A k \in 1..Len(p) : s[i + k - 1] = p[k]

\* s.startsWith(p)
StartsWith(s, p) == MatchAt(s, 1, p)

\* s.includes(p)
Includes(s, p) == \E i \in 1..(Len(s) + 1) : MatchAt(s, i, p)

\* s with everything before index lo and after index hi removed
TrimTo(s, keep) ==
  IF keep = {} THEN <<>>
  ELSE SubSeq(s, CHOOSE i \in keep : \A j \in keep : i <= j,
                 CHOOSE i \in keep : \A j \in keep : i >= j)

\* s.trim()
Trim(s) == TrimTo(s, {i \in 1..Len(s) : s[i] \notin WhiteSpace})

\* s.split('\n'): the pieces between newlines; always at least one piece.
\* `from` is the index of the newline before the piece, nl the newlines left,
\* i the first of them.
RECURSIVE SplitFrom(_, _, _)
SplitAt(s, from, nl, i) ==
  <<SubSeq(s, from + 1, i - 1)>> \o SplitFrom(s, i, nl \ {i})

SplitFrom(s, from, nl) ==
  IF nl = {} THEN <<SubSeq(s, from + 1, Len(s))>>
  ELSE SplitAt(s, from, nl, CHOOSE x \in nl : \A y \in nl : x <= y)

Split(s) == SplitFrom(s, 0, {i \in 1..Len(s) : s[i] = NL})

\* lines joined by newlines (the inverse of Split).
RECURSIVE Join(_)
Join(ls) ==
  IF Len(ls) = 0 THEN <<>>
  ELSE IF Len(ls) = 1 THEN ls[1]
  ELSE ls[1] \o <<NL>> \o Join(Tail(ls))

(***************************************************************************)
(* JavaScript values and JSON.parse                                        *)
(***************************************************************************)

Undefined == [t |-> "undefined"]

JNull == [t |-> "null"]

JBool(b) == [t |-> "bool", b |-> b]

JNum(n) == [t |-> "num", n |-> n]

JStr(s) == [t |-> "str", s |-> s]

JArr(a) == [t |-> "arr", a |-> a]

\* an object: its members in source order, each [k |-> key, v |-> value]
JObj(m) == [t |-> "obj", m |-> m]

ParseFail == [ok |-> FALSE]

ParseOk(v, n) == [ok |-> TRUE, val |-> v, next |-> n]

RECURSIVE SkipWs(_, _)
SkipWs(s, i) ==
  IF i <= Len(s) /\ s[i] \in WhiteSpace THEN SkipWs(s, i + 1) ELSE i

\* the index of the closing quote of a string whose first character is at i,
\* or 0 when the string is not closed (or holds a backslash: escapes are not
\* part of the wire alphabet)
RECURSIVE StringEnd(_, _)
StringEnd(s, i) ==
  IF i > Len(s) THEN 0
  ELSE IF s[i] = "\"" THEN i
  ELSE IF s[i] = "\\" THEN 0
  ELSE StringEnd(s, i + 1)

RECURSIVE DigitsEnd(_, _)
DigitsEnd(s, i) ==
  IF i <= Len(s) /\ s[i] \in Digits THEN DigitsEnd(s, i + 1) ELSE i

RECURSIVE DigitsVal(_, _, _, _)
DigitsVal(s, i, j, acc) ==
  IF i >= j THEN acc ELSE DigitsVal(s, i + 1, j, acc * 10 + DigitVal(s[i]))

\* a string literal whose opening quote is at i and closing quote at e
StringUpTo(s, i, e) ==
  IF e = 0 THEN ParseFail ELSE ParseOk(JStr(SubSeq(s, i + 1, e - 1)), e + 1)

ParseString(s, i) ==
  IF i > Len(s) \/ s[i] # "\"" THEN ParseFail
  ELSE StringUpTo(s, i, StringEnd(s, i + 1))

\* an integer whose digits are s[d..e-1]
NumberUpTo(s, sign, d, e) ==
  IF e = d THEN ParseFail
  ELSE IF s[d] = "0" /\ e > d + 1 THEN ParseFail
  ELSE ParseOk(JNum(sign * DigitsVal(s, d, e, 0)), e)

ParseNumber(s, i) ==
  IF i <= Len(s) /\ s[i] = "-"
    THEN NumberUpTo(s, 0 - 1, i + 1, DigitsEnd(s, i + 1))
    ELSE NumberUpTo(s, 1, i, DigitsEnd(s, i))

RECURSIVE ParseValue(_, _), ParseMembers(_, _, _), ParseElements(_, _, _)

\* after a member: "}" ends the object, "," announces another member
MemberEnd(s, mem, e) ==
  IF e > Len(s) THEN ParseFail
  ELSE IF s[e] = "}" THEN ParseOk(JObj(mem), e + 1)
  ELSE IF s[e] = "," THEN ParseMembers(s, e + 1, mem)
  ELSE ParseFail

MemberValue(s, acc, k, v) ==
  IF ~v.ok THEN ParseFail
  ELSE MemberEnd(s, Append(acc, [k |-> k.val.s, v |-> v.val]),
                 SkipWs(s, v.next))

MemberColon(s, acc, k, c) ==
  IF c > Len(s) \/ s[c] # ":" THEN ParseFail
  ELSE MemberValue(s, acc, k, ParseValue(s, c + 1))

MemberKey(s, acc, k) ==
  IF ~k.ok THEN ParseFail ELSE MemberColon(s, acc, k, SkipWs(s, k.next))

\* the members of an object from i on, up to and including "}"
ParseMembers(s, i, acc) == MemberKey(s, acc, ParseString(s, SkipWs(s, i)))

\* after an element: "]" ends the array, "," announces another element
ElementEnd(s, els, e) ==
  IF e > Len(s) THEN ParseFail
  ELSE IF s[e] = "]" THEN ParseOk(JArr(els), e + 1)
  ELSE IF s[e] = "," THEN ParseElements(s, e + 1, els)
  ELSE ParseFail

ElementValue(s, acc, v) ==
  IF ~v.ok THEN ParseFail
  ELSE ElementEnd(s, Append(acc, v.val), SkipWs(s, v.next))

\* the elements of an array from i on, up to and including "]"
ParseElements(s, i, acc) == ElementValue(s, acc, ParseValue(s, i))

\* after "{"
ObjectAt(s, j) ==
  IF j <= Len(s) /\ s[j] = "}" THEN ParseOk(JObj(<<>>), j + 1)
  ELSE ParseMembers(s, j, <<>>)

\* after "["
ArrayAt(s, j) ==
  IF j <= Len(s) /\ s[j] = "]" THEN ParseOk(JArr(<<>>), j + 1)
  ELSE ParseElements(s, j, <<>>)

\* one JSON value whose first character is at i
ValueAt(s, i) ==
  IF i > Len(s) THEN ParseFail
  ELSE IF s[i] = "{" THEN ObjectAt(s, SkipWs(s, i + 1))
  ELSE IF s[i] = "[" THEN ArrayAt(s, SkipWs(s, i + 1))
  ELSE IF s[i] = "\"" THEN ParseString(s, i)
  ELSE IF MatchAt(s, i, LitTrue) THEN ParseOk(JBool(TRUE), i + Len(LitTrue))
  ELSE IF MatchAt(s, i, LitFalse) THEN ParseOk(JBool(FALSE), i + Len(LitFalse))
  ELSE IF MatchAt(s, i, LitNull) THEN ParseOk(JNull, i + Len(LitNull))
  ELSE ParseNumber(s, i)

\* one JSON value starting at i0 (leading white space skipped)
ParseValue(s, i0) == ValueAt(s, SkipWs(s, i0))

\* the whole text must be one value
WholeValue(s, r) ==
  IF r.ok /\ SkipWs(s, r.next) > Len(s) THEN [ok |-> TRUE, val |-> r.val]
  ELSE [ok |-> FALSE]

\* JSON.parse(s): [ok |-> TRUE, val |-> v] or [ok |-> FALSE] (SyntaxError)
JSONParse(s) == WholeValue(s, ParseValue(s, 1))

\* the member at the last of the indices `hits`
LastOf(m, hits) ==
  IF hits = {} THEN Undefined
  ELSE m[CHOOSE i \in hits : \A j \in hits : i >= j].v

\* obj[key] for a parsed object: the last member of that name wins
Get(m, key) == LastOf(m, {i \in 1..Len(m) : m[i].k = key})

\* v.key throws a TypeError on null and undefined
PropThrows(v) == v.t \in {"null", "undefined"}

\* v.key where it does not throw; none of the keys probed here is a
\* property of a string, number, boolean or array
Prop(v, key) == IF v.t = "obj" THEN Get(v.m, key) ELSE Undefined

\* v?.key
OptChain(v, key) == IF PropThrows(v) THEN Undefined ELSE Prop(v, key)

\* the truthiness of a value, as || and && test it
Truthy(v) ==
  CASE v.t = "undefined" -> FALSE
    [] v.t = "null" -> FALSE
    [] v.t = "bool" -> v.b
    [] v.t = "num" -> v.n # 0
    [] v.t = "str" -> Len(v.s) > 0
    [] OTHER -> TRUE

\* a || b
Or(a, b) == IF Truthy(a) THEN a ELSE b


(***************************************************************************)
(* TextDecoder: UTF-8 bytes to characters                                  *)
(*                                                                         *)
(* A byte below 0x80 is written as its character.  One two-byte character  *)
(* is in the alphabet: U+00E9, sent as the bytes 0xC3 0xA9.                *)
(***************************************************************************)

EAcute == "U+00E9"

LeadByte == "0xC3"

ContByte == "0xA9"

Replacement == "U+FFFD"

\* the server's encoding of text as bytes
RECURSIVE Encode(_)
Encode(s) ==
  IF Len(s) = 0 THEN <<>>
  ELSE (IF Head(s) = EAcute THEN <<LeadByte, ContByte>> ELSE <<Head(s)>>)
       \o Encode(Tail(s))

\* what TextDecoder emits for the byte at index i of b:
\* a character, or Nothing for a byte that emits none on its own
Nothing == ""

DecodedAt(b, i) ==
  IF b[i] = LeadByte THEN
    IF i = Len(b) THEN Nothing
    ELSE IF b[i + 1] = ContByte THEN EAcute ELSE Replacement
  ELSE IF b[i] = ContByte THEN
    IF i > 1 /\ b[i - 1] = LeadByte THEN Nothing ELSE Replacement
  ELSE b[i]

IsChar(c) == c # Nothing

\* the decoding of the bytes b: every complete character, and the lead byte
\* kept when b ends in the middle of a character
DecodeAll(b) ==
  [text |-> SelectSeq([i \in 1..Len(b) |-> DecodedAt(b, i)], IsChar),
   held |-> IF Len(b) > 0 /\ b[Len(b)] = LeadByte THEN <<LeadByte>> ELSE <<>>]

\* decoder.decode(bytes, { stream: true }) with `kept` the bytes of an
\* incomplete character kept from the previous call:
\* [text |-> the characters decoded, held |-> the bytes kept for the next call]
DecodeStream(kept, bytes) == DecodeAll(kept \o bytes)

(***************************************************************************)
(* Stream events                                                           *)
(***************************************************************************)

Chunk(c) == [type |-> "chunk", content |-> c]

DoneEvent == [type |-> "done"]

(***************************************************************************)
(* streamResponse: the handling of one line                                *)
(***************************************************************************)

\* line.startsWith('data: ') ? line.slice(6) : line
ContentLine(line) ==
  IF StartsWith(line, DataPrefix) THEN Slice(line, PrefixLen) ELSE line

\* a faulty variant: 'END' is not among the sentinels
IsSentinelWithoutEnd(c) == c = DoneBracket \/ c = DoneWord

\* contentLine === '[DONE]' || contentLine === 'DONE' || contentLine === 'END'
IsSentinel(c) == c = DoneBracket \/ c = DoneWord \/ c = EndWord

\* v === true
IsTrue(v) == v.t = "bool" /\ v.b

\* parsed.done === true
DoneIsTrue(parsed) == IsTrue(Prop(parsed, KeyDone))

\* parsed.content || parsed.message || parsed.text || parsed.delta?.content
ExtractContent(parsed) ==
  Or(Or(Or(Prop(parsed, KeyContent), Prop(parsed, KeyMessage)),
        Prop(parsed, KeyText)),
     OptChain(Prop(parsed, KeyDelta), KeyContent))

\* if (content && typeof content === 'string') yield chunk
ContentEvents(content) ==
  IF Truthy(content) /\ content.t = "str" THEN <<Chunk(content.s)>> ELSE <<>>

\* a faulty variant: the catch block swallows the line
CatchEventsSilent(c) == <<>>

\* the catch block: raw text, unless it holds the completion marker
CatchEvents(c) ==
  IF ~Includes(c, DoneKeyQuoted) THEN <<Chunk(c)>> ELSE <<>>

\* does the try block throw, r being the outcome of JSON.parse?  JSON.parse
\* throws a SyntaxError; parsed.done throws a TypeError when JSON.parse
\* returned null
TryThrows(r) == ~r.ok \/ PropThrows(r.val)

\* One outcome of a step of a decoder:
\*   events  what it yields, in order
\*   stop    it returns after them
\*   error   an exception leaves the loop
Outcome(ev, stop, err) == [events |-> ev, stop |-> stop, error |-> err]

\* a faulty variant: no catch, an exception of the try block leaves the loop
LineTryUncaught(c, r) ==
  IF TryThrows(r) THEN Outcome(<<>>, FALSE, TRUE)
  ELSE IF DoneIsTrue(r.val) THEN Outcome(<<DoneEvent>>, TRUE, FALSE)
  ELSE Outcome(ContentEvents(ExtractContent(r.val)), FALSE, FALSE)

\* the try and catch of the loop body, r being the outcome of JSON.parse(c)
LineTry(c, r) ==
  IF TryThrows(r) THEN Outcome(CatchEvents(c), FALSE, FALSE)
  ELSE IF DoneIsTrue(r.val) THEN Outcome(<<DoneEvent>>, TRUE, FALSE)
  ELSE Outcome(ContentEvents(ExtractContent(r.val)), FALSE, FALSE)

\* a faulty variant: a sentinel yields done and the loop goes on
LineContentGoesOn(c) ==
  IF IsSentinel(c) THEN Outcome(<<DoneEvent>>, FALSE, FALSE)
  ELSE LineTry(c, JSONParse(c))

\* the loop body from the sentinel test on, c being contentLine
LineContent(c) ==
  IF IsSentinel(c) THEN Outcome(<<DoneEvent>>, TRUE, FALSE)
  ELSE LineTry(c, JSONParse(c))

\* the body of `for (const line of lines)`
LineOutcome(line) ==
  IF Len(Trim(line)) = 0 THEN Outcome(<<>>, FALSE, FALSE)
  ELSE LineContent(ContentLine(line))

\* the try and catch after the loop, r being the outcome of JSON.parse(c)
FlushTry(c, r) ==
  IF TryThrows(r) THEN Outcome(CatchEvents(c), TRUE, FALSE)
  ELSE IF DoneIsTrue(r.val) THEN Outcome(<<DoneEvent>>, TRUE, FALSE)
  ELSE Outcome(ContentEvents(ExtractContent(r.val)), TRUE, FALSE)

FlushContent(c) == FlushTry(c, JSONParse(c))

\* the handling of the text left in the buffer when the stream has ended
FlushOutcome(buf) ==
  IF Len(Trim(buf)) = 0 THEN Outcome(<<>>, TRUE, FALSE)
  ELSE FlushContent(ContentLine(buf))

(***************************************************************************)
(* The response bodies considered                                          *)
(***************************************************************************)

\* (an empty line)
LineBlank == <<>>

\* data: 
LinePrefixOnly == <<"d", "a", "t", "a", ":", " ">>

\* data: [DONE]
LineDataDoneBracket == <<"d", "a", "t", "a", ":", " ", "[", "D", "O", "N", "E", "]">>

\* DONE
LineDoneWord == <<"D", "O", "N", "E">>

\* END
LineEndWord == <<"E", "N", "D">>

\* data: {"done":true}
LineDataDoneTrue == <<"d", "a", "t", "a", ":", " ", "{", "\"", "d", "o", "n", "e", "\"", ":", "t", "r", "u", "e", "}">>

\* data: {"content":"a"}
LineDataContentA == <<"d", "a", "t", "a", ":", " ", "{", "\"", "c", "o", "n", "t", "e", "n", "t", "\"", ":", "\"", "a", "\"", "}">>

\* {"content":1,"text":"b"}
LineNumberThenText == <<"{", "\"", "c", "o", "n", "t", "e", "n", "t", "\"", ":", "1", ",", "\"", "t", "e", "x", "t", "\"", ":", "\"", "b", "\"", "}">>

\* {"text":"t","content":"c"}
LineTextThenContent == <<"{", "\"", "t", "e", "x", "t", "\"", ":", "\"", "t", "\"", ",", "\"", "c", "o", "n", "t", "e", "n", "t", "\"", ":", "\"", "c", "\"", "}">>

\* {"content":"","message":"m"}
LineEmptyThenMessage == <<"{", "\"", "c", "o", "n", "t", "e", "n", "t", "\"", ":", "\"", "\"", ",", "\"", "m", "e", "s", "s", "a", "g", "e", "\"", ":", "\"", "m", "\"", "}">>

\* {"delta":{"content":"d"}}
LineDelta == <<"{", "\"", "d", "e", "l", "t", "a", "\"", ":", "{", "\"", "c", "o", "n", "t", "e", "n", "t", "\"", ":", "\"", "d", "\"", "}", "}">>

\* he-acute  (the second character is U+00E9, two bytes on the wire)
LineRaw == <<"h", EAcute>>

\* {"done"
LineBrokenDone == <<"{", "\"", "d", "o", "n", "e", "\"">>

\* null
LineNull == <<"n", "u", "l", "l">>

\* 7
LineScalar == <<"7">>

\* {}
LineEmptyObject == <<"{", "}">>

Catalogue ==
  { LineBlank, LinePrefixOnly, LineDataDoneBracket, LineDoneWord, LineEndWord,
    LineDataDoneTrue, LineDataContentA, LineNumberThenText,
    LineTextThenContent, LineEmptyThenMessage, LineDelta, LineRaw,
    LineBrokenDone, LineNull, LineScalar, LineEmptyObject }

\* the lines that may stand anywhere in a body
Common == {LineBlank, LineDataContentA, LineDataDoneTrue, LineRaw}

\* the most lines a response body holds
MaxLines == 2

\* the bodies of exactly n lines: lines of Common, and at most one other line
\* of the catalogue
RECURSIVE LineSeqs(_, _)
LineSeqs(n, pool) ==
  IF n = 0 THEN {<<>>}
  ELSE {<<l>> \o ls : l \in Common, ls \in LineSeqs(n - 1, pool)}
         \cup {<<l>> \o ls : l \in pool \ Common, ls \in LineSeqs(n - 1, Common)}

\* the texts a server may send: up to MaxLines lines, the last one with or
\* without its newline
Bodies == UNION {LineSeqs(n, Catalogue) : n \in 0..MaxLines}

Texts ==
  {Join(ls) : ls \in Bodies} \cup {Join(ls) \o <<NL>> : ls \in Bodies \ {<<>>}}

Wires == {Encode(t) : t \in Texts}

\* the replies considered for a call of sendMessageStream: a stream that
\* ends without a completion line, one that ends with '[DONE]', one that
\* ends with done: true, and one with a line of plain text
ReplyBodies ==
  { <<LineDataContentA>>,
    <<LineDataContentA, LineDataDoneBracket>>,
    <<LineDataContentA, LineDataDoneTrue>>,
    <<LineRaw, LineDataContentA>> }

ReplyWires == {Encode(Join(b) \o <<NL>>) : b \in ReplyBodies}

Front(s) == SubSeq(s, 1, Len(s) - 1)

Last(s) == s[Len(s)]

(***************************************************************************)
(* sendMessageStream: the handling of one read                             *)
(***************************************************************************)

ErrorEvent == [type |-> "error"]

\* data !== 'DONE' && data !== 'END' && !data.includes('"done"')
IsPlainText(t) ==
  t # DoneWord /\ t # EndWord /\ ~Includes(t, DoneKeyQuoted)

\* the text branches: onChunk(t) unless t is a completion marker
PlainEvents(t) == IF IsPlainText(t) THEN <<Chunk(t)>> ELSE <<>>

\* the try and catch, r being the outcome of JSON.parse(data); onChunk(c) is
\* written Chunk(c), onComplete() is written DoneEvent
CbTry(data, r) ==
  IF TryThrows(r) THEN Outcome(PlainEvents(data), FALSE, FALSE)
  ELSE IF DoneIsTrue(r.val) THEN Outcome(<<DoneEvent>>, TRUE, FALSE)
  ELSE Outcome(ContentEvents(ExtractContent(r.val)), FALSE, FALSE)

\* the branch of a line that starts with 'data: ', data being line.slice(6)
CbData(data) ==
  IF data = DoneBracket THEN Outcome(<<DoneEvent>>, TRUE, FALSE)
  ELSE CbTry(data, JSONParse(data))

\* the body of `for (const line of lines)`
CbLineOutcome(line) ==
  IF Len(Trim(line)) = 0 THEN Outcome(<<>>, FALSE, FALSE)
  ELSE IF StartsWith(line, DataPrefix) THEN CbData(Slice(line, PrefixLen))
  ELSE Outcome(PlainEvents(line), FALSE, FALSE)

\* the whole loop over the lines of one read: it ends at the first line that
\* returns
RECURSIVE CbLinesOutcome(_, _)
CbAfterLine(ls, calls, o) ==
  IF o.stop \/ o.error THEN Outcome(calls \o o.events, o.stop, o.error)
  ELSE CbLinesOutcome(Tail(ls), calls \o o.events)

CbLinesOutcome(ls, calls) ==
  IF Len(ls) = 0 THEN Outcome(calls, FALSE, FALSE)
  ELSE CbAfterLine(ls, calls, CbLineOutcome(Head(ls)))

(***************************************************************************)
(* useTypewriterStream: texts and speeds                                   *)
(***************************************************************************)

\* the text that arrives chunk by chunk
FullText == <<"H", "e", "l", "l", "o">>

\* next.slice(0, i)
SliceTo(s, i) == SubSeq(s, 1, IF i < Len(s) THEN i ELSE Len(s))

\* the values `text` takes: each one extends the one before
Targets == {SliceTo(FullText, n) : n \in 0..Len(FullText)}

\* speed: number = 20
DefaultSpeed == 20

\* useTypewriterStream(content, 5)
MessageSpeed == 5

Speeds == {DefaultSpeed, MessageSpeed}

(***************************************************************************)
(* State                                                                   *)
(***************************************************************************)

VARIABLES
  wire,     \* streamResponse: the bytes of the response body
  pos,      \* how many of them the reader has handed out
  net,      \* the body stream: "none", "open", "closed" or "errored"
  aborted,  \* signal.aborted
  pc,       \* where the generator stands
  held,     \* the TextDecoder's incomplete character
  buffer,   \* `buffer`
  lines,    \* the lines of the current read not yet handled
  events,   \* the events yielded so far
  locked,   \* the reader holds its lock on the body
  log,      \* each line handled so far, and the text left at the end of the
            \* stream, with what it yielded
  cause,    \* why the generator threw
  fetches,  \* the requests streamResponse has issued
  joined,   \* a read has continued a line that an earlier read left unfinished
  cbWire,   \* sendMessageStream: the bytes of the response body
  cbPos,    \* how many of them the reader has handed out
  cbPc,     \* where the call stands
  cbHeld,   \* the TextDecoder's incomplete character
  cbCalls,  \* the callbacks made so far
  cbReads,  \* the reads that returned bytes so far
  cbFetches, \* the requests sendMessageStream has issued
  cbCause,  \* the failure of the transport that sendMessageStream met
  twPc,     \* useTypewriterStream: "none" before the mount, "render" when a
            \* render is committed and its effects are still to run, "idle",
            \* "unmounting" when unmounted with the cleanup still to run, "gone"
  twText,   \* `text` of the last render
  twSpeed,  \* `speed` of the last render
  twDisplayed, \* `displayed`
  twPrev,   \* prevTextRef.current
  twRef,    \* intervalRef.current (0 for null)
  twTimers, \* the intervals that are set: [id, i, next] with the `i` and
            \* `next` of the callback's closure
  twIds,    \* the intervals created so far (setInterval numbers them)
  twBase,   \* the target that the last change of `text` extended
  twSpeedChanges, \* the renders so far that changed only `speed`
  twReplayed, \* the effect has been cleaned up and run again by React
  chPc,     \* EnhancedChatBox: where handleSubmit stands: "idle" before the
            \* call, "awaiting" sendMessageStream, "done" after finally
  chMessages, \* `messages`
  chLoading, \* `isLoading`
  chConnected, \* `isConnected`
  chEffect, \* the welcome-message effect is still to run for the last render
  chFull,   \* `fullResponseText` of the call of handleSubmit
  chChecks, \* the health checks that have answered so far
  chShown,  \* the `isLoading` of the last render: what the closure of
            \* handleSubmit and the disabled controls hold
  chRequests \* the calls of sendMessageStream made so far

genVars == <<wire, pos, net, aborted, pc, held, buffer, lines, events, locked,
             log, cause, fetches, joined>>

cbVars == <<cbWire, cbPos, cbPc, cbHeld, cbCalls, cbReads, cbFetches, cbCause>>

twVars == <<twPc, twText, twSpeed, twDisplayed, twPrev, twRef, twTimers, twIds,
            twBase, twSpeedChanges, twReplayed>>

chVars == <<chPc, chMessages, chLoading, chConnected, chEffect, chFull,
            chChecks, chShown, chRequests>>

vars == <<genVars, cbVars, twVars, chVars>>

\* what a step of one component leaves alone
exceptGen == <<cbVars, twVars, chVars>>

exceptCb == <<genVars, twVars, chVars>>

exceptCalls == <<twVars, chVars>>

exceptTw == <<genVars, cbVars, chVars>>

exceptChat == <<genVars, twVars>>

Init ==
  /\ wire = <<>>
  /\ pos = 0
  /\ net = "none"
  /\ aborted = FALSE
  /\ pc = "idle"
  /\ held = <<>>
  /\ buffer = <<>>
  /\ lines = <<>>
  /\ events = <<>>
  /\ locked = FALSE
  /\ log = <<>>
  /\ cause = "none"
  /\ fetches = 0
  /\ joined = FALSE
  /\ cbWire = <<>>
  /\ cbPos = 0
  /\ cbPc = "idle"
  /\ cbHeld = <<>>
  /\ cbCalls = <<>>
  /\ cbReads = 0
  /\ cbFetches = 0
  /\ cbCause = "none"
  /\ twPc = "none"
  /\ twText = <<>>
  /\ twSpeed = DefaultSpeed
  /\ twDisplayed = <<>>
  /\ twPrev = <<>>
  /\ twRef = 0
  /\ twTimers = {}
  /\ twIds = 0
  /\ twBase = <<>>
  /\ twSpeedChanges = 0
  /\ twReplayed = FALSE
  /\ chPc = "idle"
  /\ chMessages = <<>>
  /\ chLoading = FALSE
  /\ chConnected = FALSE
  /\ chEffect = TRUE
  /\ chFull = <<>>
  /\ chChecks = 0
  /\ chShown = FALSE
  /\ chRequests = 0

(***************************************************************************)
(* streamResponse, step by step                                            *)
(***************************************************************************)

\* fetch resolves with a success status and body w; getReader() locks it
GenFetchOk(w) ==
  /\ pc = "idle"
  /\ wire' = w
  /\ net' = "open"
  /\ locked' = TRUE
  /\ pc' = "read"
  /\ UNCHANGED <<pos, aborted, held, buffer, lines, events, log, cause>>
  /\ fetches' = fetches + 1
  /\ UNCHANGED joined

\* fetch resolves with a non-success status: throw before any reader exists
GenFetchHttpError ==
  /\ pc = "idle"
  /\ pc' = "thrown"
  /\ cause' = "http"
  /\ UNCHANGED <<wire, pos, net, aborted, held, buffer, lines, events, locked,
                 log>>
  /\ fetches' = fetches + 1
  /\ UNCHANGED joined

\* fetch rejects (network failure)
GenFetchReject ==
  /\ pc = "idle"
  /\ pc' = "thrown"
  /\ cause' = "network"
  /\ UNCHANGED <<wire, pos, net, aborted, held, buffer, lines, events, locked,
                 log>>
  /\ fetches' = fetches + 1
  /\ UNCHANGED joined

\* buffer.split('\n') gave the pieces `all`: the last one stays in the buffer
GenTakeLines(all) ==
  /\ lines' = Front(all)
  /\ buffer' = Last(all)
  /\ pc' = IF Len(all) = 1 THEN "read" ELSE "lines"

\* a faulty variant: each read is split on its own, and the piece an earlier
\* read left in the buffer is overwritten
GenTakeTextUnbuffered(d) ==
  /\ held' = d.held
  /\ GenTakeLines(Split(d.text))

\* buffer += decoder.decode(value, { stream: true })
GenTakeText(d) ==
  /\ held' = d.held
  /\ GenTakeLines(Split(buffer \o d.text))

\* reader.read() resolves with n more bytes: decode, split, keep the last piece
GenReadChunk(n) ==
  /\ pc = "read"
  /\ net = "open"
  /\ n \in 1..(Len(wire) - pos)
  /\ pos' = pos + n
  /\ GenTakeText(DecodeStream(held, SubSeq(wire, pos + 1, pos + n)))
  /\ UNCHANGED <<wire, net, aborted, events, locked, log, cause>>
  /\ joined' = (joined \/ Len(buffer) > 0)
  /\ UNCHANGED fetches

\* reader.read() resolves with done
GenReadDone ==
  /\ pc = "read"
  /\ net = "closed"
  /\ pc' = "flush"
  /\ UNCHANGED <<wire, pos, net, aborted, held, buffer, lines, events, locked,
                 log, cause>>
  /\ UNCHANGED <<fetches, joined>>

\* reader.read() rejects because the connection failed: the exception leaves
\* through finally
GenReadError ==
  /\ pc = "read"
  /\ net = "open"
  /\ net' = "errored"
  /\ pc' = "thrown"
  /\ cause' = "read"
  /\ locked' = FALSE
  /\ UNCHANGED <<wire, pos, aborted, held, buffer, lines, events, log>>
  /\ UNCHANGED <<fetches, joined>>

\* reader.read() rejects because the fetch was aborted: the exception leaves
\* through finally
GenReadAborted ==
  /\ pc = "read"
  /\ net = "errored"
  /\ pc' = "thrown"
  /\ cause' = "abort"
  /\ locked' = FALSE
  /\ UNCHANGED <<wire, pos, net, aborted, held, buffer, lines, events, log>>
  /\ UNCHANGED <<fetches, joined>>

\* what a step with outcome o leaves behind: the events yielded, and where
\* the generator stands (`on` when it goes on)
GenYield(o, on) ==
  /\ events' = events \o o.events
  /\ pc' = IF o.error THEN "thrown" ELSE IF o.stop THEN "end" ELSE on
  /\ cause' = IF o.error THEN "line" ELSE cause
  /\ locked' = IF o.error THEN FALSE ELSE locked

GenLogged(kind, line, o) ==
  log' = Append(log, [kind |-> kind, line |-> line, out |-> o.events])

GenLineDone(o) ==
  /\ GenYield(o, IF Len(lines) = 1 THEN "read" ELSE "lines")
  /\ GenLogged("line", Head(lines), o)

\* one turn of `for (const line of lines)`
GenLineStep ==
  /\ pc = "lines"
  /\ GenLineDone(LineOutcome(Head(lines)))
  /\ lines' = Tail(lines)
  /\ UNCHANGED <<wire, pos, net, aborted, held, buffer>>
  /\ UNCHANGED <<fetches, joined>>

GenFlushDone(o) ==
  /\ GenYield(o, "end")
  /\ GenLogged("flush", buffer, o)

\* after the loop: the text left in the buffer
GenFlush ==
  /\ pc = "flush"
  /\ GenFlushDone(FlushOutcome(buffer))
  /\ UNCHANGED <<wire, pos, net, aborted, held, buffer, lines>>
  /\ UNCHANGED <<fetches, joined>>

\* the generator is resumed after its last yield: return, through finally
GenFinish ==
  /\ pc = "end"
  /\ pc' = "returned"
  /\ locked' = FALSE
  /\ UNCHANGED <<wire, pos, net, aborted, held, buffer, lines, events, log,
                 cause>>
  /\ UNCHANGED <<fetches, joined>>

\* a faulty variant: the signal is not handed to fetch, so the body stream
\* stays open when the caller aborts
GenAbortUnheeded ==
  /\ pc \in {"read", "lines"}
  /\ net = "open"
  /\ aborted' = TRUE
  /\ UNCHANGED <<wire, pos, net, pc, held, buffer, lines, events, locked, log,
                 cause>>
  /\ UNCHANGED <<fetches, joined>>

\* the caller aborts the signal while the body is still being streamed:
\* the body stream is errored
GenAbort ==
  /\ pc \in {"read", "lines"}
  /\ net = "open"
  /\ aborted' = TRUE
  /\ net' = "errored"
  /\ UNCHANGED <<wire, pos, pc, held, buffer, lines, events, locked, log,
                 cause>>
  /\ UNCHANGED <<fetches, joined>>

\* the server ends the body; the reader sees it once every byte is read
GenServerClose ==
  /\ net = "open"
  /\ pos = Len(wire)
  /\ net' = "closed"
  /\ UNCHANGED <<wire, pos, aborted, pc, held, buffer, lines, events, locked,
                 log, cause>>
  /\ UNCHANGED <<fetches, joined>>

(***************************************************************************)
(* sendMessageStream, read by read                                         *)
(***************************************************************************)

\* the most reads that return bytes in one call of sendMessageStream
MaxReads == 2

\* fetch resolves with a success status and body w
CbFetchOk(w) ==
  /\ cbPc = "idle"
  /\ cbWire' = w
  /\ cbPc' = "read"
  /\ UNCHANGED <<cbPos, cbHeld, cbCalls, cbReads>>
  /\ cbFetches' = cbFetches + 1
  /\ UNCHANGED cbCause

\* fetch resolves with a non-success status, or rejects: the throw is caught
\* and onError is called
CbFetchFails ==
  /\ cbPc = "idle"
  /\ cbPc' = "resolved"
  /\ cbCalls' = Append(cbCalls, ErrorEvent)
  /\ UNCHANGED <<cbWire, cbPos, cbHeld, cbReads>>
  /\ cbFetches' = cbFetches + 1
  /\ cbCause' \in {"http", "network"}

\* the callbacks of one read, o being the outcome of its loop
CbCalled(o) ==
  /\ cbCalls' = cbCalls \o o.events \o (IF o.error THEN <<ErrorEvent>> ELSE <<>>)
  /\ cbPc' = IF o.stop \/ o.error THEN "resolved" ELSE "read"

\* const chunk = decoder.decode(value, { stream: true })
CbTakeText(d) ==
  /\ cbHeld' = d.held
  /\ CbCalled(CbLinesOutcome(Split(d.text), <<>>))

\* reader.read() resolves with n more bytes: decode, split, handle every line
CbReadChunk(n) ==
  /\ cbPc = "read"
  /\ n \in 1..(Len(cbWire) - cbPos)
  /\ cbReads + 1 < MaxReads \/ n = Len(cbWire) - cbPos
  /\ cbPos' = cbPos + n
  /\ cbReads' = cbReads + 1
  /\ CbTakeText(DecodeStream(cbHeld, SubSeq(cbWire, cbPos + 1, cbPos + n)))
  /\ UNCHANGED cbWire
  /\ UNCHANGED <<cbFetches, cbCause>>

\* a faulty variant: the end of the body is met without a call of
\* onComplete
CbReadDoneSilent ==
  /\ cbPc = "read"
  /\ cbPos = Len(cbWire)
  /\ cbPc' = "resolved"
  /\ UNCHANGED <<cbWire, cbPos, cbHeld, cbCalls, cbReads, cbFetches, cbCause>>

\* reader.read() resolves with done: onComplete
CbReadDone ==
  /\ cbPc = "read"
  /\ cbPos = Len(cbWire)
  /\ cbCalls' = Append(cbCalls, DoneEvent)
  /\ cbPc' = "resolved"
  /\ UNCHANGED <<cbWire, cbPos, cbHeld, cbReads>>
  /\ UNCHANGED <<cbFetches, cbCause>>

\* a faulty variant: the failure is caught and not reported
CbReadErrorSwallowed ==
  /\ cbPc = "read"
  /\ cbPc' = "resolved"
  /\ cbCause' = "read"
  /\ UNCHANGED <<cbWire, cbPos, cbHeld, cbCalls, cbReads, cbFetches>>

\* reader.read() rejects: the throw is caught and onError is called
CbReadError ==
  /\ cbPc = "read"
  /\ cbCalls' = Append(cbCalls, ErrorEvent)
  /\ cbPc' = "resolved"
  /\ UNCHANGED <<cbWire, cbPos, cbHeld, cbReads>>
  /\ cbCause' = "read"
  /\ UNCHANGED cbFetches

(***************************************************************************)
(* useTypewriterStream, step by step                                       *)
(*                                                                         *)
(* React runs the effects of a render after the render is committed, and   *)
(* before the next render; a callback of an interval may run in between.   *)
(***************************************************************************)

\* the most renders that change only `speed`
MaxSpeedChanges == 1

\* clearInterval(id) when id is not null
TwCleared(timers, id) == {t \in timers : t.id # id}

\* a faulty variant: the interval is set and its number is not kept
TwStartUntracked(timers, id) ==
  /\ twTimers' = TwCleared(timers, twRef)
                   \cup {[id |-> id, i |-> Len(twPrev), next |-> twText]}
  /\ twIds' = id
  /\ twPrev' = twText
  /\ UNCHANGED twRef

\* a faulty variant: the new interval starts at index 0
TwStartFromZero(timers, id) ==
  /\ twTimers' = TwCleared(timers, twRef)
                   \cup {[id |-> id, i |-> 0, next |-> twText]}
  /\ twRef' = id
  /\ twIds' = id
  /\ twPrev' = twText

\* the body of `if (text !== prevTextRef.current)`: clear the interval of
\* intervalRef, set a new one that starts at prev.length, note the text
TwStart(timers, id) ==
  /\ twTimers' = TwCleared(timers, twRef)
                   \cup {[id |-> id, i |-> Len(twPrev), next |-> twText]}
  /\ twRef' = id
  /\ twIds' = id
  /\ twPrev' = twText

\* the effect, run when `timers` are the intervals still set
TwRunEffect(timers) ==
  IF twText # twPrev THEN TwStart(timers, twIds + 1)
  ELSE twTimers' = timers /\ UNCHANGED <<twRef, twIds, twPrev>>

\* a faulty variant: the cleanup clears nothing
TwCleanedUpNot(timers) == timers

\* the cleanup returned by the effect: clear the interval of intervalRef
TwCleanedUp(timers) == TwCleared(timers, twRef)

\* the first render, with text t and speed sp
TwMount(t, sp) ==
  /\ twPc = "none"
  /\ twText' = t
  /\ twSpeed' = sp
  /\ twPc' = "render"
  /\ UNCHANGED <<twDisplayed, twPrev, twRef, twTimers, twIds, twBase,
                 twSpeedChanges, twReplayed>>

\* a render with a longer text t
TwRenderText(t) ==
  /\ twPc = "idle"
  /\ Len(t) > Len(twText)
  /\ twBase' = twText
  /\ twText' = t
  /\ twPc' = "render"
  /\ UNCHANGED <<twSpeed, twDisplayed, twPrev, twRef, twTimers, twIds,
                 twSpeedChanges, twReplayed>>

\* a render with the same text and another speed
TwRenderSpeed(sp) ==
  /\ twPc = "idle"
  /\ sp # twSpeed
  /\ twSpeedChanges < MaxSpeedChanges
  /\ twSpeed' = sp
  /\ twSpeedChanges' = twSpeedChanges + 1
  /\ twPc' = "render"
  /\ UNCHANGED <<twText, twDisplayed, twPrev, twRef, twTimers, twIds, twBase,
                 twReplayed>>

\* the effects of the committed render: [text, speed] has changed, so the
\* cleanup of the previous effect runs, then the effect
TwEffect ==
  /\ twPc = "render"
  /\ TwRunEffect(TwCleanedUp(twTimers))
  /\ twPc' = "idle"
  /\ UNCHANGED <<twText, twSpeed, twDisplayed, twBase, twSpeedChanges,
                 twReplayed>>

\* React cleans the effect up and runs it again with the same text and
\* speed (as StrictMode does after the mount)
TwReplay ==
  /\ twPc = "idle"
  /\ ~twReplayed
  /\ twReplayed' = TRUE
  /\ TwRunEffect(TwCleanedUp(twTimers))
  /\ UNCHANGED <<twPc, twText, twSpeed, twDisplayed, twBase, twSpeedChanges>>

\* a faulty variant: next.slice(i) instead of next.slice(0, i)
TwShownTail(t) ==
  IF twPc \in {"unmounting", "gone"} THEN twDisplayed
  ELSE SubSeq(t.next, t.i + 1, Len(t.next))

\* setDisplayed(next.slice(0, i)): React drops the update of a component
\* that is unmounted
TwShown(t) ==
  IF twPc \in {"unmounting", "gone"} THEN twDisplayed
  ELSE SliceTo(t.next, t.i)

\* the callback of interval t
TwTick(t) ==
  /\ t \in twTimers
  /\ IF t.i <= Len(t.next)
       THEN /\ twDisplayed' = TwShown(t)
            /\ twTimers' = (twTimers \ {t}) \cup {[t EXCEPT !.i = t.i + 1]}
       ELSE /\ twTimers' = TwCleared(twTimers, twRef)
            /\ UNCHANGED twDisplayed
  /\ UNCHANGED <<twPc, twText, twSpeed, twPrev, twRef, twIds, twBase,
                 twSpeedChanges, twReplayed>>

\* the component is unmounted
TwUnmount ==
  /\ twPc = "idle"
  /\ twPc' = "unmounting"
  /\ UNCHANGED <<twText, twSpeed, twDisplayed, twPrev, twRef, twTimers, twIds,
                 twBase, twSpeedChanges, twReplayed>>

\* the cleanup of the last effect, after the unmount
TwCleanup ==
  /\ twPc = "unmounting"
  /\ twTimers' = TwCleanedUp(twTimers)
  /\ twPc' = "gone"
  /\ UNCHANGED <<twText, twSpeed, twDisplayed, twPrev, twRef, twIds, twBase,
                 twSpeedChanges, twReplayed>>

(***************************************************************************)
(* EnhancedChatBox: the message list, the health check and handleSubmit     *)
(*                                                                         *)
(* A message is written [id, role, content, isStreaming], isStreaming      *)
(* being FALSE where the source leaves it undefined.  The updates of       *)
(* `messages` are functional and applied in the order they are queued, so  *)
(* chMessages is the list after every update queued so far.                *)
(***************************************************************************)

\* the most health checks that answer
MaxChecks == 2

\* the most calls of handleSubmit that pass its guard
MaxSubmits == 2

\* the text the user has typed: not blank
InputText == <<"h", "i">>

\* 'Sorry, I encountered an error during streaming. Please try again.'
ErrorText == <<"S", "o", "r", "r", "y">>

\* the two texts of the welcome message, shortened
WelcomeText(connected) ==
  IF connected THEN <<"r", "e", "a", "d", "y">> ELSE <<"o", "f", "f">>

WelcomeMessage(connected) ==
  [id |-> "welcome", role |-> "assistant", content |-> WelcomeText(connected),
   isStreaming |-> FALSE]

\* id: Date.now().toString()
UserMessage ==
  [id |-> "now", role |-> "user", content |-> InputText, isStreaming |-> FALSE]

\* aiMessageId: (Date.now() + 1).toString()
AiMessageId == "now+1"

Placeholder ==
  [id |-> AiMessageId, role |-> "assistant", content |-> <<>>,
   isStreaming |-> TRUE]

\* prev.map(msg => msg.id === aiMessageId ? { ...msg, content, isStreaming }
\*                                         : msg)
ChatSet(msgs, content, streaming) ==
  [k \in 1..Len(msgs) |->
     IF msgs[k].id = AiMessageId
       THEN [msgs[k] EXCEPT !.content = content, !.isStreaming = streaming]
       ELSE msgs[k]]

\* the message list and fullResponseText after the callback c: onChunk,
\* onComplete or onError
ChatOnCall(msgs, full, c) ==
  IF c.type = "chunk"
    THEN [msgs |-> ChatSet(msgs, full \o c.content, TRUE),
          full |-> full \o c.content]
  ELSE IF c.type = "done"
    THEN [msgs |-> ChatSet(msgs, full, FALSE), full |-> full]
  ELSE [msgs |-> ChatSet(msgs, ErrorText, FALSE), full |-> full]

\* after the callbacks `calls`, in order
RECURSIVE ChatOnCalls(_, _)
ChatOnCalls(st, calls) ==
  IF Len(calls) = 0 THEN st
  ELSE ChatOnCalls(ChatOnCall(st.msgs, st.full, Head(calls)), Tail(calls))

\* the callbacks that this step of sendMessageStream makes
ChatNewCalls == SubSeq(cbCalls', Len(cbCalls) + 1, Len(cbCalls'))

ChatCalled(st) ==
  /\ chMessages' = st.msgs
  /\ chFull' = st.full

\* a step of sendMessageStream inside handleSubmit, with its callbacks
ChatCallbacks ==
  /\ chPc = "awaiting"
  /\ ChatCalled(ChatOnCalls([msgs |-> chMessages, full |-> chFull],
                            ChatNewCalls))
  /\ UNCHANGED <<chPc, chLoading, chConnected, chEffect, chChecks>>
  /\ UNCHANGED <<chShown, chRequests>>
  /\ UNCHANGED exceptChat

\* the welcome-message effect runs, at the mount and after each render in
\* which isConnected has changed: setMessages([welcomeMessage])
ChatWelcome ==
  /\ chEffect
  /\ chMessages' = <<WelcomeMessage(chConnected)>>
  /\ chEffect' = FALSE
  /\ UNCHANGED <<chPc, chLoading, chConnected, chFull, chChecks>>
  /\ UNCHANGED <<chShown, chRequests>>
  /\ UNCHANGED <<cbVars, exceptChat>>

\* checkConnection answers, at the mount or 30 s after the last time: ok when
\* the backend answered with a success status, not ok for another status, a
\* failure or the timeout
ChatHealth(ok) ==
  /\ ~chEffect
  /\ chChecks < MaxChecks
  /\ chChecks' = chChecks + 1
  /\ chConnected' = ok
  /\ chEffect' = (ok # chConnected)
  /\ UNCHANGED <<chPc, chMessages, chLoading, chFull>>
  /\ UNCHANGED <<chShown, chRequests>>
  /\ UNCHANGED <<cbVars, exceptChat>>

\* the render that follows a change of isLoading is committed
ChatRender ==
  /\ chShown # chLoading
  /\ chShown' = chLoading
  /\ UNCHANGED <<chPc, chMessages, chLoading, chConnected, chEffect, chFull,
                 chChecks, chRequests>>
  /\ UNCHANGED <<cbVars, exceptChat>>

\* the form is submitted (the input and the button are disabled while
\* isLoading or not isConnected, as of the last render, and the guard of
\* handleSubmit reads the isLoading of that render): handleSubmit up to its
\* await
ChatSubmit ==
  /\ chPc = "idle"
  /\ ~chEffect
  /\ chConnected
  /\ ~chShown
  /\ chMessages' = chMessages \o <<UserMessage, Placeholder>>
  /\ chLoading' = TRUE
  /\ chFull' = <<>>
  /\ chPc' = "awaiting"
  /\ chRequests' = chRequests + 1
  /\ UNCHANGED <<chConnected, chEffect, chChecks, chShown>>
  /\ UNCHANGED <<cbVars, exceptChat>>

\* the messages of a later call of handleSubmit; Date.now() has moved on,
\* or has not
LaterMessages(moved) ==
  IF moved
    THEN <<[UserMessage EXCEPT !.id = "later"],
           [Placeholder EXCEPT !.id = "later+1"]>>
    ELSE <<UserMessage, Placeholder>>

\* the form is submitted again while the first call of handleSubmit is
\* awaiting sendMessageStream: handleSubmit up to its await.  The request
\* of this call stays unanswered.
ChatSubmitAgain(moved) ==
  /\ chPc = "awaiting"
  /\ chRequests < MaxSubmits
  /\ ~chEffect
  /\ chConnected
  /\ ~chShown
  /\ chMessages' = chMessages \o LaterMessages(moved)
  /\ chLoading' = TRUE
  /\ chRequests' = chRequests + 1
  /\ UNCHANGED <<chPc, chConnected, chEffect, chFull, chChecks, chShown>>
  /\ UNCHANGED <<cbVars, exceptChat>>

ChatSendFetchOk ==
  /\ chPc = "awaiting"
  /\ cbPc = "idle"
  /\ \E w \in ReplyWires : CbFetchOk(w)
  /\ UNCHANGED <<chVars, exceptChat>>

ChatSendFetchFails == CbFetchFails /\ ChatCallbacks

ChatSendReadChunk ==
  /\ cbPc = "read"
  /\ \E n \in 1..(Len(cbWire) - cbPos) : CbReadChunk(n)
  /\ ChatCallbacks

ChatSendReadDone == CbReadDone /\ ChatCallbacks

ChatSendReadError == CbReadError /\ ChatCallbacks

\* sendMessageStream has resolved: finally
ChatFinally ==
  /\ chPc = "awaiting"
  /\ cbPc = "resolved"
  /\ chLoading' = FALSE
  /\ chPc' = "done"
  /\ UNCHANGED <<chMessages, chConnected, chEffect, chFull, chChecks>>
  /\ UNCHANGED <<chShown, chRequests>>
  /\ UNCHANGED <<cbVars, exceptChat>>

(***************************************************************************)
(* Spec: one call of streamResponse                                        *)
(***************************************************************************)

FetchOk ==
  /\ pc = "idle"
  /\ \E w \in Wires : GenFetchOk(w)
  /\ UNCHANGED exceptGen

FetchHttpError == GenFetchHttpError /\ UNCHANGED exceptGen

FetchReject == GenFetchReject /\ UNCHANGED exceptGen

ReadChunk ==
  /\ pc = "read"
  /\ \E n \in 1..(Len(wire) - pos) : GenReadChunk(n)
  /\ UNCHANGED exceptGen

ReadDone == GenReadDone /\ UNCHANGED exceptGen

ReadError == GenReadError /\ UNCHANGED exceptGen

ReadAborted == GenReadAborted /\ UNCHANGED exceptGen

LineStep == GenLineStep /\ UNCHANGED exceptGen

Flush == GenFlush /\ UNCHANGED exceptGen

Finish == GenFinish /\ UNCHANGED exceptGen

Abort == GenAbort /\ UNCHANGED exceptGen

ServerClose == GenServerClose /\ UNCHANGED exceptGen

Next ==
  \/ FetchOk
  \/ FetchHttpError
  \/ FetchReject
  \/ ReadChunk
  \/ ReadDone
  \/ ReadError
  \/ ReadAborted
  \/ LineStep
  \/ Flush
  \/ Finish
  \/ Abort
  \/ ServerClose

Spec == Init /\ [][Next]_vars

(***************************************************************************)
(* SpecCb: one call of sendMessageStream                                   *)
(***************************************************************************)

SendFetchOk ==
  /\ cbPc = "idle"
  /\ \E w \in Wires : CbFetchOk(w)
  /\ UNCHANGED exceptCb

SendFetchFails == CbFetchFails /\ UNCHANGED exceptCb

SendReadChunk ==
  /\ cbPc = "read"
  /\ \E n \in 1..(Len(cbWire) - cbPos) : CbReadChunk(n)
  /\ UNCHANGED exceptCb

SendReadDone == CbReadDone /\ UNCHANGED exceptCb

SendReadError == CbReadError /\ UNCHANGED exceptCb

NextCb ==
  \/ SendFetchOk
  \/ SendFetchFails
  \/ SendReadChunk
  \/ SendReadDone
  \/ SendReadError

SpecCb == Init /\ [][NextCb]_vars

(***************************************************************************)
(* SpecPair: streamResponse and sendMessageStream on the same body, cut    *)
(* into the same reads                                                     *)
(***************************************************************************)

GenOver == pc \in {"end", "returned", "thrown"}

CbOver == cbPc = "resolved"

PairFetchOk ==
  /\ pc = "idle"
  /\ cbPc = "idle"
  /\ \E w \in Wires : GenFetchOk(w) /\ CbFetchOk(w)
  /\ UNCHANGED exceptCalls

\* the same n bytes reach both decoders
PairReadChunk ==
  /\ pc = "read"
  /\ cbPc = "read"
  /\ \E n \in 1..(Len(wire) - pos) : GenReadChunk(n) /\ CbReadChunk(n)
  /\ UNCHANGED exceptCalls

\* a read of the decoder that is still running after the other has ended
PairGenReadAlone ==
  /\ CbOver
  /\ pc = "read"
  /\ \E n \in 1..(Len(wire) - pos) : GenReadChunk(n)
  /\ UNCHANGED exceptGen

PairCbReadAlone ==
  /\ GenOver
  /\ cbPc = "read"
  /\ \E n \in 1..(Len(cbWire) - cbPos) : CbReadChunk(n)
  /\ UNCHANGED exceptCb

PairGenStep ==
  /\ GenLineStep \/ GenFlush \/ GenFinish \/ GenServerClose \/ GenReadDone
  /\ UNCHANGED exceptGen

PairCbReadDone == CbReadDone /\ UNCHANGED exceptCb

NextPair ==
  \/ PairFetchOk
  \/ PairReadChunk
  \/ PairGenReadAlone
  \/ PairCbReadAlone
  \/ PairGenStep
  \/ PairCbReadDone

SpecPair == Init /\ [][NextPair]_vars

(***************************************************************************)
(* SpecCalls: one call of either decoder                                   *)
(***************************************************************************)

CallStream == cbPc = "idle" /\ Next

CallSendFetchOk ==
  /\ pc = "idle"
  /\ cbPc = "idle"
  /\ \E w \in ReplyWires : CbFetchOk(w)
  /\ UNCHANGED exceptCb

CallSendFetchFails == pc = "idle" /\ SendFetchFails

NextCalls ==
  \/ CallStream
  \/ CallSendFetchOk
  \/ CallSendFetchFails
  \/ SendReadChunk
  \/ SendReadDone
  \/ SendReadError

SpecCalls == Init /\ [][NextCalls]_vars

(***************************************************************************)
(* SpecTw: one instance of useTypewriterStream                             *)
(***************************************************************************)

Mount ==
  /\ twPc = "none"
  /\ \E t \in Targets, sp \in Speeds : TwMount(t, sp)
  /\ UNCHANGED exceptTw

RenderText ==
  /\ twPc = "idle"
  /\ \E t \in Targets : TwRenderText(t)
  /\ UNCHANGED exceptTw

RenderSpeed ==
  /\ twPc = "idle"
  /\ \E sp \in Speeds : TwRenderSpeed(sp)
  /\ UNCHANGED exceptTw

Effect == TwEffect /\ UNCHANGED exceptTw

Replay == TwReplay /\ UNCHANGED exceptTw

Tick == (\E t \in twTimers : TwTick(t)) /\ UNCHANGED exceptTw

Unmount == TwUnmount /\ UNCHANGED exceptTw

Cleanup == TwCleanup /\ UNCHANGED exceptTw

NextTw ==
  \/ Mount
  \/ RenderText
  \/ RenderSpeed
  \/ Effect
  \/ Replay
  \/ Tick
  \/ Unmount
  \/ Cleanup

SpecTw == Init /\ [][NextTw]_vars

\* the same, with the scheduling the browser and React guarantee: an
\* interval that stays set keeps firing, and committed effects are run
SpecTwFair == SpecTw /\ WF_vars(Tick) /\ WF_vars(Effect) /\ WF_vars(Cleanup)

(***************************************************************************)
(* SpecChat: EnhancedChatBox from its mount, with one message submitted    *)
(***************************************************************************)

Health == \E ok \in BOOLEAN : ChatHealth(ok)

NextChat ==
  \/ ChatWelcome
  \/ Health
  \/ ChatRender
  \/ ChatSubmit
  \/ ChatSendFetchOk
  \/ ChatSendFetchFails
  \/ ChatSendReadChunk
  \/ ChatSendReadDone
  \/ ChatSendReadError
  \/ ChatFinally

SpecChat == Init /\ [][NextChat]_vars

(***************************************************************************)
(* SpecSubmits: EnhancedChatBox with submit events that arrive while the   *)
(* first call of handleSubmit is awaiting its stream                       *)
(***************************************************************************)

SubmitAgain == \E moved \in BOOLEAN : ChatSubmitAgain(moved)

NextSubmits == NextChat \/ SubmitAgain

SpecSubmits == Init /\ [][NextSubmits]_vars

(***************************************************************************)
(* The vocabulary of the properties                                        *)
(***************************************************************************)

\* the payload of a line: the line without its optional 'data: ' prefix
Payload(line) ==
  IF Len(line) >= PrefixLen /\ SubSeq(line, 1, PrefixLen) = DataPrefix
    THEN SubSeq(line, PrefixLen + 1, Len(line))
    ELSE line

Sentinels == {DoneBracket, DoneWord, EndWord}

\* r, the outcome of JSON.parse, is an object
IsObject(r) == r.ok /\ r.val.t = "obj"

\* r, the outcome of JSON.parse, is an object with done: true
IsDoneObject(r) == IsObject(r) /\ IsTrue(Get(r.val.m, KeyDone))

\* a completion payload: a sentinel, or a JSON object with done: true
IsCompletion(p) == p \in Sentinels \/ IsDoneObject(JSONParse(p))

IsBlank(line) == \A i \in 1..Len(line) : line[i] \in WhiteSpace

IsLineEntry(e) == e.kind = "line"

IsFlushEntry(e) == e.kind = "flush"

\* the complete lines handled so far, in order
LoggedLines == [i \in 1..Len(SelectSeq(log, IsLineEntry)) |->
                  SelectSeq(log, IsLineEntry)[i].line]

\* the text of the bytes read so far
Received == DecodeAll(SubSeq(wire, 1, pos)).text

IsEmptyChunk(e) == e.type = "chunk" /\ Len(e.content) = 0

IsTerminal(e) == e.type \in {"done", "error"}

\* what the consumer of the generator observes: the events, and the error
\* when the generator threw
Outcomes == events \o (IF pc = "thrown" THEN <<ErrorEvent>> ELSE <<>>)

\* the generator has finished
Finished == pc \in {"returned", "thrown"}

\* the generator has yielded done, or has failed
Terminated ==
  pc = "thrown" \/ (Len(events) > 0 /\ events[Len(events)].type = "done")

\* the values of the fields probed, in the order of their priority
Probed(v) ==
  <<Prop(v, KeyContent), Prop(v, KeyMessage), Prop(v, KeyText),
    OptChain(Prop(v, KeyDelta), KeyContent)>>

IsText(v) == v.t = "str" /\ Len(v.s) > 0

\* a chunk with the first of the texts, if there is one
FirstOf(texts) == IF Len(texts) = 0 THEN <<>> ELSE <<Chunk(texts[1].s)>>

\* a chunk with the first probed field that is a non-empty string
FirstText(v) == FirstOf(SelectSeq(Probed(v), IsText))

\* data: {"content":"a"}  data: {"done":true}   (two complete lines)
ExampleChunkThenDone ==
  LineDataContentA \o <<NL>> \o LineDataDoneTrue \o <<NL>>

\* data: [DONE]   (one complete line)
ExampleDoneAlone == LineDataDoneBracket \o <<NL>>

(***************************************************************************)
(* C1                                                                      *)
(***************************************************************************)

\* C1: no chunk event yielded by streamResponse, and no onChunk call made by
\* sendMessageStream, carries the empty string.
\* The code does not satisfy it: the line 'data: ' has the empty payload,
\* JSON.parse('') throws, and the catch block emits the payload.
C1_NoEmptyChunk ==
  /\ \A i \in 1..Len(events) : ~IsEmptyChunk(events[i])
  /\ \A i \in 1..Len(cbCalls) : ~IsEmptyChunk(cbCalls[i])

(***************************************************************************)
(* C2                                                                      *)
(***************************************************************************)

\* C2: once streamResponse has yielded done, or has failed, no step adds an
\* event, whatever lines, buffered text or unread bytes remain.
C2_NothingAfterTerminal == [][Terminated => events' = events]_vars

\* done was yielded while complete lines of the same read were still waiting
C2_DoneBeforeOtherLines ==
  /\ pc = "returned"
  /\ Len(events) > 0
  /\ events[Len(events)].type = "done"
  /\ Len(lines) > 0

(***************************************************************************)
(* C3                                                                      *)
(***************************************************************************)

\* C3: a finished run of streamResponse shows exactly one done or error
\* outcome, and it is the last one.
\* The code does not satisfy it: when the body ends without a completion
\* line the generator returns without yielding done.
C3_OneTerminalEvent ==
  Finished =>
    /\ Len(SelectSeq(Outcomes, IsTerminal)) = 1
    /\ IsTerminal(Outcomes[Len(Outcomes)])

(***************************************************************************)
(* C4                                                                      *)
(***************************************************************************)

\* C4: a complete non-blank line whose payload is a sentinel or a JSON object
\* with done: true yields done and nothing else; the body
\* 'data: {"content":"a"}\ndata: {"done":true}\n' yields chunk "a" then done,
\* and the body 'data: [DONE]\n' yields done alone.
C4_CompletionLineYieldsDone ==
  /\ \A i \in 1..Len(log) :
       (/\ IsLineEntry(log[i])
        /\ ~IsBlank(log[i].line)
        /\ IsCompletion(Payload(log[i].line)))
         => /\ Len(log[i].out) = 1
            /\ log[i].out[1].type = "done"
  /\ (pc = "returned" /\ wire = Encode(ExampleChunkThenDone))
       => events = <<Chunk(<<"a">>), DoneEvent>>
  /\ (pc = "returned" /\ wire = Encode(ExampleDoneAlone))
       => events = <<DoneEvent>>

\* the first example has run to its end
C4_ChunkThenDone ==
  /\ pc = "returned"
  /\ wire = Encode(ExampleChunkThenDone)
  /\ Len(log) = 2
  /\ IsCompletion(Payload(log[2].line))
  /\ Len(events) = 2

(***************************************************************************)
(* C5                                                                      *)
(***************************************************************************)

\* C5: the text left in the buffer at the end of the stream, when it is not
\* blank, yields what the same text would yield as a complete line.
\* The code does not satisfy it: the code after the loop has no sentinel
\* test, so a sentinel left in the buffer is emitted as a chunk.
C5_FlushLikeLine ==
  \A i \in 1..Len(log) :
    (IsFlushEntry(log[i]) /\ ~IsBlank(log[i].line))
      => log[i].out = LineOutcome(log[i].line).events

(***************************************************************************)
(* C6                                                                      *)
(***************************************************************************)

\* C6: a line that parses as a JSON object without done: true yields a chunk
\* with the first of content, message, text, delta.content that is a
\* non-empty string, and nothing when there is none.
\* The code does not satisfy it: || stops at the first truthy value, so a
\* number or an object in a field of higher priority hides the later fields.
C6_FirstNonEmptyString ==
  \A i \in 1..Len(log) :
    (/\ IsLineEntry(log[i])
     /\ ~IsBlank(log[i].line)
     /\ IsObject(JSONParse(Payload(log[i].line)))
     /\ ~IsDoneObject(JSONParse(Payload(log[i].line))))
      => log[i].out = FirstText(JSONParse(Payload(log[i].line)).val)

(***************************************************************************)
(* C7                                                                      *)
(***************************************************************************)

\* C7, as stated: a complete non-blank line whose payload is not valid JSON
\* and not a sentinel yields exactly one chunk, with the raw payload.
C7_RawChunkForInvalidJson ==
  \A i \in 1..Len(log) :
    (/\ IsLineEntry(log[i])
     /\ ~IsBlank(log[i].line)
     /\ ~JSONParse(Payload(log[i].line)).ok
     /\ Payload(log[i].line) \notin Sentinels)
      => log[i].out = <<Chunk(Payload(log[i].line))>>

\* C7, amended: a complete non-blank line whose payload is not valid JSON,
\* not a sentinel, and does not contain the substring '"done"' yields
\* exactly one chunk, with the raw payload.
C7_RawChunkUnlessMarker ==
  \A i \in 1..Len(log) :
    (/\ IsLineEntry(log[i])
     /\ ~IsBlank(log[i].line)
     /\ ~JSONParse(Payload(log[i].line)).ok
     /\ Payload(log[i].line) \notin Sentinels
     /\ ~Includes(Payload(log[i].line), DoneKeyQuoted))
      => log[i].out = <<Chunk(Payload(log[i].line))>>

\* a line of plain text has been handled
C7_RawLineHandled ==
  \E i \in 1..Len(log) :
    /\ IsLineEntry(log[i])
    /\ log[i].line = LineRaw
    /\ log[i].out = <<Chunk(LineRaw)>>

(***************************************************************************)
(* C8                                                                      *)
(***************************************************************************)

\* C8: no line makes streamResponse fail or stop early.  The generator
\* throws only for a failure of the transport; the lines handled and waiting
\* are at every moment exactly the complete lines of the text read so far;
\* and the generator ends only after a completion line or after the end of
\* the stream.
C8_LinesNeverAbort ==
  /\ pc = "thrown" => cause \in {"http", "network", "read", "abort"}
  /\ LoggedLines \o lines = Front(Split(Received))
  /\ pc \in {"end", "returned"} =>
       /\ Len(log) > 0
       /\ \/ IsFlushEntry(log[Len(log)])
          \/ IsCompletion(Payload(log[Len(log)].line))

\* the line 'null', on which parsed.done throws, was handled, and the line
\* after it too
C8_GoesOnAfterNull ==
  /\ Len(log) >= 2
  /\ IsLineEntry(log[1])
  /\ log[1].line = LineNull
  /\ IsLineEntry(log[2])
  /\ log[2].line = LineDataContentA
  /\ Len(log[2].out) = 1

(***************************************************************************)
(* C9                                                                      *)
(***************************************************************************)

\* C9: on the same body cut into the same reads, the calls made by
\* sendMessageStream are, in order, the outcomes of streamResponse.
\* The code does not satisfy it: sendMessageStream splits each read on its
\* own, calls onComplete at the end of the stream, takes a bare '[DONE]' for
\* text, goes on after 'DONE' and 'END', and parses no line without the
\* 'data: ' prefix.
C9_SameOutcomes == (Finished /\ CbOver) => cbCalls = Outcomes

(***************************************************************************)
(* C10                                                                     *)
(***************************************************************************)

\* C10: once the caller has aborted a stream in progress, no more bytes are
\* read, the next read fails and ends the generator without an event, the
\* buffer is never flushed, every later event comes from a line read before
\* the abort, and the lock is released when the generator ends.
C10_AbortStopsAtNextRead ==
  [][aborted =>
       /\ pos' = pos
       /\ pc' # "flush"
       /\ log' # log => IsLineEntry(log'[Len(log')])
       /\ events' # events => pc = "lines"
       /\ pc = "read" => (pc' = "thrown" /\ events' = events /\ ~locked')
       /\ pc' \in {"returned", "thrown"} => ~locked']_vars

\* aborted in mid-stream: events were yielded, bytes are unread, and the
\* partial line in the buffer is dropped
C10_AbortedMidStream ==
  /\ aborted
  /\ pc = "thrown"
  /\ cause = "abort"
  /\ ~locked
  /\ Len(events) > 0
  /\ Len(buffer) > 0
  /\ pos < Len(wire)
  /\ \A i \in 1..Len(log) : IsLineEntry(log[i])

(***************************************************************************)
(* C11                                                                     *)
(***************************************************************************)

\* C11: a failure of the transport is reported and never retried.  Each
\* call issues one request; when streamResponse meets a failure it throws,
\* and for a failed request it has yielded nothing; when sendMessageStream
\* meets a failure it resolves after one call of onError, its last call.
C11_TransportFailureReported ==
  /\ fetches = (IF pc = "idle" THEN 0 ELSE 1)
  /\ cbFetches = (IF cbPc = "idle" THEN 0 ELSE 1)
  /\ cause # "none" => pc = "thrown"
  /\ cause \in {"http", "network"} => Len(events) = 0
  /\ cbCause # "none" =>
       /\ cbPc = "resolved"
       /\ Len(SelectSeq(cbCalls, IsTerminal)) = 1
       /\ cbCalls[Len(cbCalls)].type = "error"

\* a read of sendMessageStream failed after a chunk had been delivered
C11_ReadFailsAfterChunk ==
  /\ cbCause = "read"
  /\ cbFetches = 1
  /\ Len(cbCalls) = 2
  /\ cbCalls[1].type = "chunk"
  /\ cbCalls[2].type = "error"

(***************************************************************************)
(* C12 .. C16, C19: useTypewriterStream                                    *)
(***************************************************************************)

\* a is a prefix of b
IsPrefix(a, b) == Len(a) <= Len(b) /\ SubSeq(b, 1, Len(a)) = a

\* the component is mounted
TwMounted == twPc \in {"render", "idle"}

\* the callback of an interval calls setDisplayed on the mounted component
TwTickWrites ==
  /\ TwMounted
  /\ \E t \in twTimers : t.i <= Len(t.next) /\ TwTick(t)

\* C12: with targets that extend one another, the displayed string is
\* after every step a prefix of the current target, and no step shortens it.
C12_PrefixAndGrowing ==
  [][/\ IsPrefix(twDisplayed', twText')
     /\ Len(twDisplayed') >= Len(twDisplayed)]_vars

\* the target was extended before it was fully displayed, and the whole of
\* the longest target is displayed
C12_ExtendedAndShown ==
  /\ twPc = "idle"
  /\ twIds >= 2
  /\ twText = FullText
  /\ twDisplayed = FullText
  /\ Len(twBase) > 0

\* C13, as stated: once the target was extended from p, no tick sets the
\* displayed string to a prefix shorter than p.
C13_NoShorterThanBase ==
  [][TwTickWrites => Len(twDisplayed') >= Len(twBase)]_vars

\* C13, amended: once the effect of the render that extended the target from
\* p has run, no tick sets the displayed string to a prefix shorter than p.
C13_NoShorterOnceEffectRan ==
  [][(TwTickWrites /\ twPrev = twText) =>
       Len(twDisplayed') >= Len(twBase)]_vars

\* the target was extended from "He" while nothing was displayed yet, and
\* the first tick of the new interval has displayed "He"
C13_ContinuedFromBase ==
  /\ twPc = "idle"
  /\ twIds = 2
  /\ twBase = SliceTo(FullText, 2)
  /\ twText = FullText
  /\ twDisplayed = twBase
  /\ \E t \in twTimers : t.id = 2 /\ t.i = Len(twBase) + 1

\* C14: each tick lengthens the displayed string by at most one character.
\* The code does not satisfy it: the interval of a new target starts at the
\* length of the previous target, not at the length displayed.
C14_OneCharacterPerTick ==
  [][Len(twDisplayed') <= Len(twDisplayed) + 1]_vars

\* C15: at most one interval is set at any time, the one intervalRef holds.
C15_OneTimer ==
  /\ Cardinality(twTimers) <= 1
  /\ \A t \in twTimers : t.id = twRef /\ t.next = twPrev

\* the interval of a new target has replaced the one of the previous
\* target while that one was still at work
C15_TimerReplaced ==
  /\ twIds = 2
  /\ \E t \in twTimers : t.id = 2
  /\ Len(twDisplayed) < Len(twBase)
  /\ twSpeedChanges = 0
  /\ ~twReplayed

\* C16: after the unmount no step changes the displayed string, and once
\* the cleanup has run no interval is set.
C16_StoppedAfterUnmount ==
  [][~TwMounted /\ twPc # "none" =>
       /\ twDisplayed' = twDisplayed
       /\ twPc' = "gone" => twTimers' = {}]_vars

\* unmounted in the middle of the animation
C16_UnmountedMidway ==
  /\ twPc = "gone"
  /\ twIds > 0
  /\ Len(twDisplayed) < Len(twText)
  /\ Len(twDisplayed) > 0
  /\ twSpeedChanges = 0
  /\ ~twReplayed

\* C19: if the target stops changing and the component stays mounted, the
\* displayed string is in the end the target, and stays so.
\* The code does not satisfy it: a render that changes only `speed`, or a
\* cleanup and re-run of the effect, clears the interval, and the effect
\* sets no new one because text === prevTextRef.current.
C19_EventuallyShown == <>[](TwMounted => twDisplayed = twText)


(***************************************************************************)
(* C17                                                                     *)
(***************************************************************************)

\* the text of the whole response body
BodyText == DecodeAll(wire).text

\* the events of the lines ls handled in order, the last piece as the text
\* left at the end of the stream, after the events acc
RECURSIVE WholeLines(_, _)
WholeAfter(ls, acc, o) ==
  IF o.stop \/ o.error
    THEN acc \o o.events
    ELSE WholeLines(Tail(ls), acc \o o.events)

WholeLines(ls, acc) ==
  IF Len(ls) = 1
    THEN acc \o FlushOutcome(ls[1]).events
    ELSE WholeAfter(ls, acc, LineOutcome(Head(ls)))

\* the events of the body when it arrives whole, in one read
WholeEvents == WholeLines(Split(BodyText), <<>>)

\* C17: however the body is split into reads, the events yielded so far are
\* the first of the events that the body yields when it arrives in one read,
\* and a generator that has returned has yielded all of them.
C17_SplitsDoNotMatter ==
  /\ IsPrefix(events, WholeEvents)
  /\ pc \in {"end", "returned"} => events = WholeEvents

\* the generator has returned after a read that continued a line left
\* unfinished by an earlier read, and it has yielded events
C17_LineAcrossReads ==
  /\ pc = "returned"
  /\ joined
  /\ Len(events) > 0
  /\ Len(log) >= 2


(***************************************************************************)
(* C18, C20: EnhancedChatBox                                               *)
(***************************************************************************)

\* the assistant's message of the call of handleSubmit, where it is in the
\* list
IsAiMessage(m) == m.id = AiMessageId

AiMessages == SelectSeq(chMessages, IsAiMessage)

\* C18: sendMessageStream has resolved exactly when it has called onComplete
\* or onError, it calls one of them once, and that call is its last; when
\* handleSubmit has finished, isLoading is false and the assistant's message
\* is not streaming.
C18_OneTerminalCallThenIdle ==
  /\ Len(SelectSeq(cbCalls, IsTerminal)) = (IF cbPc = "resolved" THEN 1 ELSE 0)
  /\ cbPc = "resolved" => IsTerminal(cbCalls[Len(cbCalls)])
  /\ chPc = "done" =>
       /\ cbPc = "resolved"
       /\ ~chLoading
       /\ \A k \in 1..Len(chMessages) : ~chMessages[k].isStreaming

\* handleSubmit has finished after a stream that delivered a chunk and ended
\* with a completion line; the assistant's message holds the chunk
C18_FinishedAfterChunk ==
  /\ chPc = "done"
  /\ Len(cbCalls) = 2
  /\ cbCalls[1].type = "chunk"
  /\ cbCalls[2].type = "done"
  /\ cbPos < Len(cbWire)
  /\ Len(AiMessages) = 1
  /\ AiMessages[1].content = cbCalls[1].content

\* C20: once handleSubmit has appended the user's message and the
\* placeholder, both are in the list, and the assistant's message holds the
\* chunks delivered so far (the error text after onError).
\* The code does not satisfy it: when isConnected changes, the welcome-message
\* effect replaces the whole list by the welcome message.
C20_MessagesKept ==
  chPc # "idle" =>
    /\ \E k \in 1..Len(chMessages) : chMessages[k] = UserMessage
    /\ Len(AiMessages) = 1
    /\ AiMessages[1].content = (IF cbCause = "none" THEN chFull ELSE ErrorText)


(***************************************************************************)
(* C21                                                                     *)
(***************************************************************************)

IsUserMessage(m) == m.role = "user"

\* C21: while a call of handleSubmit has not finished, no other call passes
\* its guard: one request has been sent, and one user message appended.
\* The code does not satisfy it: the guard reads the isLoading of the last
\* render, which is still false when a second submit event is handled before
\* the render that follows setIsLoading(true).
C21_OneRequestInFlight ==
  chPc = "awaiting" =>
    /\ chRequests = 1
    /\ Len(SelectSeq(chMessages, IsUserMessage)) <= 1

\* C21, for submit events handled after the render that follows
\* setIsLoading(true): none passes the guard.
C21_IgnoredOnceRendered ==
  [][chShown /\ chPc = "awaiting" => chRequests' = chRequests]_vars

=============================================================================
